---- MODULE Spec2Model ----
(***************************************************************************)
(* Model of src/app.py: the /process endpoint of the stock-book backend.   *)
(* One request is handled start to finish: upload validation, file         *)
(* normalisation into /tmp, the Gemini extraction call and its response    *)
(* parser, and the PostgreSQL writer.                                      *)
(*                                                                         *)
(* Texts are sequences of lexical tokens.  Numbers are kept in tenths      *)
(* (12.5 is 125, 5 is 50) so that REAL and INTEGER columns can be told     *)
(* apart without floating point.                                           *)
(***************************************************************************)
EXTENDS Integers, Sequences, FiniteSets, TLC

VARIABLES
    pc,             \* position of the handler in process_files
    requests,       \* number of requests received so far
    hasFilePart,    \* 'file' in request.files
    files,          \* request.files.getlist('file')
    image_paths,    \* result of process_uploaded_files
    api_key,        \* os.environ.get('GEMINI_API_KEY') is set
    raw_text,       \* response.text of the Gemini call
    extracted_data, \* result of extract_json_from_images_with_gemini
    called,         \* functions the handler has called for this request
    db_outcome,     \* branch insert_data_into_postgres left through
    response,       \* (body, status) returned by the handler
    tmp,            \* files under /tmp: set of [name, content]
    dbExists,       \* the target database exists on the server
    tableExists,    \* the StockBook table exists
    table,          \* committed rows of StockBook
    table0,         \* rows of StockBook when the request arrived
    serial          \* last value handed out by the Entry_ID sequence

vars == <<pc, requests, hasFilePart, files, image_paths, api_key, raw_text,
          extracted_data, called, db_outcome, response, tmp, dbExists,
          tableExists, table, table0, serial>>

----------------------------------------------------------------------------
(* Bounds *)

MaxRequests == 1
MaxFiles == 2
MaxTextLen == 3

----------------------------------------------------------------------------
(* JSON scalars and SQL values share one shape: kind, number in tenths,   *)
(* string.                                                                *)

Absent == [k |-> "absent", n |-> 0, s |-> ""]
JNull == [k |-> "null", n |-> 0, s |-> ""]
JNumber(n) == [k |-> "num", n |-> n, s |-> ""]
JString(s) == [k |-> "str", n |-> 0, s |-> s]

TextFields == {"DATE", "PARTICULARS", "Voucher_BillNo"}
QuantityFields == {"RECEIPTS_Quantity", "ISSUED_Quantity", "BALANCE_Quantity"}
AmountFields == {"RECEIPTS_Amount", "ISSUED_Amount", "BALANCE_Amount"}
FieldNames == TextFields \cup QuantityFields \cup AmountFields

EmptyFields == [f \in FieldNames |-> Absent]

\* A full row as the prompt asks for it.
GoodFields ==
    [f \in FieldNames |->
        IF f = "DATE" THEN JString("11/01/14")
        ELSE IF f = "PARTICULARS" THEN JString("opening balance")
        ELSE IF f = "Voucher_BillNo" THEN JNull
        ELSE IF f \in QuantityFields THEN JNumber(50)
        ELSE JNumber(125)]

\* Member lists the model's texts are built from, one token each.
Members ==
    [m \in {"m_ok", "m_badqty", "m_nopart", "m_coerce"} |->
        CASE m = "m_ok" -> GoodFields
          [] m = "m_badqty" ->
                [GoodFields EXCEPT !["RECEIPTS_Quantity"] = JString("abc")]
          [] m = "m_nopart" ->
                [GoodFields EXCEPT !["PARTICULARS"] = JNull]
          [] m = "m_coerce" ->
                [GoodFields EXCEPT !["RECEIPTS_Quantity"] = JNull,
                                   !["RECEIPTS_Amount"] = JString("12.5"),
                                   !["ISSUED_Quantity"] = Absent]]

MemberTokens == DOMAIN Members

\* JSON values: null, a list of values, or an object.
JNullValue == [t |-> "null", f |-> EmptyFields, items |-> <<>>]
JList(items) == [t |-> "list", f |-> EmptyFields, items |-> items]
JDict(f) == [t |-> "dict", f |-> f, items |-> <<>>]

\* Later members of an object replace earlier ones with the same key.
MergeFields(old, new) ==
    [f \in FieldNames |-> IF new[f].k # "absent" THEN new[f] ELSE old[f]]

----------------------------------------------------------------------------
(* json.loads over tokens *)

ParseFail == [ok |-> FALSE, val |-> JNullValue, next |-> 0]

RECURSIVE SkipWs(_, _)
SkipWs(t, i) ==
    IF i <= Len(t) /\ t[i] = "W" THEN SkipWs(t, i + 1) ELSE i

RECURSIVE ParseValue(_, _)
RECURSIVE ParseElements(_, _, _)
RECURSIVE ParseMembers(_, _, _)

ParseElements(t, i, acc) ==
    LET r == ParseValue(t, i) IN
    IF ~r.ok THEN ParseFail
    ELSE LET j == SkipWs(t, r.next)
             acc2 == Append(acc, r.val) IN
         IF j > Len(t) THEN ParseFail
         ELSE IF t[j] = "]" THEN [ok |-> TRUE, val |-> JList(acc2), next |-> j + 1]
         ELSE IF t[j] = "," THEN ParseElements(t, j + 1, acc2)
         ELSE ParseFail

ParseMembers(t, i, acc) ==
    LET j == SkipWs(t, i) IN
    IF j > Len(t) \/ t[j] \notin MemberTokens THEN ParseFail
    ELSE LET k == SkipWs(t, j + 1)
             acc2 == MergeFields(acc, Members[t[j]]) IN
         IF k > Len(t) THEN ParseFail
         ELSE IF t[k] = "}" THEN [ok |-> TRUE, val |-> JDict(acc2), next |-> k + 1]
         ELSE IF t[k] = "," THEN ParseMembers(t, k + 1, acc2)
         ELSE ParseFail

ParseValue(t, i) ==
    LET j == SkipWs(t, i) IN
    IF j > Len(t) THEN ParseFail
    ELSE IF t[j] = "null" THEN [ok |-> TRUE, val |-> JNullValue, next |-> j + 1]
    ELSE IF t[j] = "[" THEN
        LET k == SkipWs(t, j + 1) IN
        IF k <= Len(t) /\ t[k] = "]"
        THEN [ok |-> TRUE, val |-> JList(<<>>), next |-> k + 1]
        ELSE ParseElements(t, k, <<>>)
    ELSE IF t[j] = "{" THEN
        LET k == SkipWs(t, j + 1) IN
        IF k <= Len(t) /\ t[k] = "}"
        THEN [ok |-> TRUE, val |-> JDict(EmptyFields), next |-> k + 1]
        ELSE ParseMembers(t, k, EmptyFields)
    ELSE ParseFail

\* json.loads(text): the whole text must be one value.
JsonLoads(t) ==
    LET r == ParseValue(t, 1) IN
    IF r.ok /\ SkipWs(t, r.next) > Len(t) THEN r ELSE ParseFail

----------------------------------------------------------------------------
(* The response parser of extract_json_from_images_with_gemini *)

RECURSIVE LStrip(_)
LStrip(t) == IF t # <<>> /\ Head(t) = "W" THEN LStrip(Tail(t)) ELSE t

RECURSIVE RStrip(_)
RStrip(t) ==
    IF t # <<>> /\ t[Len(t)] = "W" THEN RStrip(SubSeq(t, 1, Len(t) - 1)) ELSE t

Strip(t) == RStrip(LStrip(t))

None == [some |-> FALSE, list |-> <<>>]
Some(l) == [some |-> TRUE, list |-> l]

IsFenced(t) == Len(t) >= 2 /\ t[1] = "FENCE_JSON" /\ t[Len(t)] = "FENCE"

LooksLikeJson(t) == t # <<>> /\ t[1] \in {"[", "{"}

\* The third branch calls re.search, and module re is never imported: the
\* NameError is caught by the function's general handler, which returns None.
RegexBranch(t) == [raised |-> TRUE, text |-> t]

CleanResponse(t) ==
    IF IsFenced(t) THEN [raised |-> FALSE, text |-> Strip(SubSeq(t, 2, Len(t) - 1))]
    ELSE IF LooksLikeJson(t) THEN [raised |-> FALSE, text |-> t]
    ELSE RegexBranch(t)

ParseResponse(raw) ==
    LET c == CleanResponse(Strip(raw)) IN
    IF c.raised THEN None
    ELSE IF c.text = <<>> THEN None
    ELSE LET r == JsonLoads(c.text) IN
         IF ~r.ok THEN None
         ELSE IF r.val.t = "list" THEN Some(r.val.items)
         ELSE IF r.val.t = "dict" THEN Some(<<r.val>>)
         ELSE None

----------------------------------------------------------------------------
(* PostgreSQL: what the StockBook columns store for a bound parameter *)

SqlNull == [k |-> "NULL", n |-> 0, s |-> ""]
SqlNum(n) == [k |-> "num", n |-> n, s |-> ""]
SqlText(s) == [k |-> "text", n |-> 0, s |-> s]
\* the text of the numeral n
SqlTextOfNumber(n) == [k |-> "text", n |-> n, s |-> ""]

Stored(v) == [err |-> FALSE, v |-> v]
DataError == [err |-> TRUE, v |-> SqlNull]

\* Strings the server reads as numbers, with their value in tenths.
NumeralTenths == [s \in {"5", "12.5"} |-> IF s = "5" THEN 50 ELSE 125]
IsNumeral(s) == s \in DOMAIN NumeralTenths
IsIntegerNumeral(s) == IsNumeral(s) /\ NumeralTenths[s] % 10 = 0

\* numeric -> integer rounds to the nearest whole number
RoundTenths(n) == IF n >= 0 THEN ((n + 5) \div 10) * 10 ELSE -(((-n) + 5) \div 10) * 10

ToText(v) ==
    IF v.k \in {"absent", "null"} THEN Stored(SqlNull)
    ELSE IF v.k = "str" THEN Stored(SqlText(v.s))
    ELSE Stored(SqlTextOfNumber(v.n))

ToInteger(v) ==
    IF v.k \in {"absent", "null"} THEN Stored(SqlNull)
    ELSE IF v.k = "num" THEN Stored(SqlNum(RoundTenths(v.n)))
    ELSE IF IsIntegerNumeral(v.s) THEN Stored(SqlNum(NumeralTenths[v.s]))
    ELSE DataError

ToReal(v) ==
    IF v.k \in {"absent", "null"} THEN Stored(SqlNull)
    ELSE IF v.k = "num" THEN Stored(SqlNum(v.n))
    ELSE IF IsNumeral(v.s) THEN Stored(SqlNum(NumeralTenths[v.s]))
    ELSE DataError

ColumnValue(f, v) ==
    IF f \in TextFields THEN ToText(v)
    ELSE IF f \in QuantityFields THEN ToInteger(v)
    ELSE ToReal(v)

\* cur.execute(sql, (...)) for one record: record.get(key) for each column.
ExecuteInsert(fields) ==
    [err |-> \E f \in FieldNames : ColumnValue(f, fields[f]).err,
     cols |-> [f \in FieldNames |-> ColumnValue(f, fields[f]).v]]

\* particulars_val[:30] in the log line raises on anything but a string.
CanSlice(v) == v.k = "str"

\* conn.rollback() after a failed insert: ends the open transaction.
RollbackFailedInsert(txn) == <<>>

\* The for loop of insert_data_into_postgres.  txn holds the rows inserted
\* in the open transaction.
RECURSIVE InsertLoop(_, _, _, _)
InsertLoop(data, i, txn, ser) ==
    IF i > Len(data) THEN [raised |-> FALSE, txn |-> txn, serial |-> ser]
    ELSE IF data[i].t # "dict" THEN [raised |-> TRUE, txn |-> txn, serial |-> ser]
    ELSE IF ~CanSlice(data[i].f["PARTICULARS"])
         THEN [raised |-> TRUE, txn |-> txn, serial |-> ser]
    ELSE LET e == ExecuteInsert(data[i].f) IN
         IF e.err THEN InsertLoop(data, i + 1, RollbackFailedInsert(txn), ser)
         ELSE InsertLoop(data, i + 1,
                         Append(txn, [id |-> ser + 1, cols |-> e.cols]), ser + 1)

ConnModes == {"ok", "connect_fail", "create_fail"}

\* insert_data_into_postgres as a whole; db is the state of the server.
InsertDataIntoPostgres(data, mode, db) ==
    IF mode = "connect_fail" \/ ~db.dbExists
    THEN [outcome |-> "db_error", db |-> db]
    ELSE IF mode = "create_fail"
    THEN [outcome |-> "db_error", db |-> db]
    ELSE LET db1 == [db EXCEPT !.tableExists = TRUE] IN
         IF data = <<>> THEN [outcome |-> "no_data", db |-> db1]
         ELSE LET r == InsertLoop(data, 1, <<>>, db.serial) IN
              IF r.raised
              THEN [outcome |-> "general_error",
                    db |-> [db1 EXCEPT !.serial = r.serial]]
              ELSE [outcome |-> "committed",
                    db |-> [db1 EXCEPT !.serial = r.serial,
                                       !.table = db.table \o r.txn]]

\* create_database_if_not_exists: every error is printed and swallowed.
CreateDatabaseIfNotExists(reachable, exists) == IF reachable THEN TRUE ELSE exists

----------------------------------------------------------------------------
(* Uploaded files and /tmp *)

\* A file name: text before the last dot, an optional number that ends it,
\* and the extension.  num = -1: no number.
Name(base, num, ext) == [base |-> base, num |-> num, ext |-> ext]

LowerExt(e) ==
    CASE e = "PNG" -> "png" [] e = "JPG" -> "jpg" [] e = "PDF" -> "pdf" [] OTHER -> e

ImageExts == {"png", "jpg", "jpeg", "bmp", "tiff"}

IsImageName(name) == LowerExt(name.ext) \in ImageExts
IsPdfName(name) == LowerExt(name.ext) = "pdf"
IsRecognized(name) == IsImageName(name) \/ IsPdfName(name)

\* f"/tmp/temp_pdf_page_{page_num}.jpg"
PagePath(page_num) == Name("temp_pdf_page_", page_num, "jpg")
IsScratch(name) == name.base = "temp_pdf_page_"

\* content 0 is data PIL cannot open as an image; pages are the rendered
\* pages of a PDF; err = k > 0: rendering raises when it reaches page k.
File(name, content, pages, err) ==
    [name |-> name, content |-> content, pages |-> pages, err |-> err]

SampleFiles ==
    { File(Name("a", -1, "png"), 1, <<>>, 0),
      File(Name("a", -1, "png"), 2, <<>>, 0),
      File(Name("b", -1, "JPG"), 0, <<>>, 0),
      File(Name("d", -1, "pdf"), 10, <<3, 4>>, 0),
      File(Name("e", -1, "PDF"), 11, <<5>>, 0),
      File(Name("f", -1, "pdf"), 12, <<6, 7>>, 2),
      File(Name("n", -1, "txt"), 8, <<>>, 0),
      File(Name("", -1, ""), 9, <<>>, 0) }

RECURSIVE SeqsUpTo(_, _)
SeqsUpTo(S, n) ==
    IF n = 0 THEN {<<>>}
    ELSE LET shorter == SeqsUpTo(S, n - 1) IN
         shorter \cup {Append(q, x) : q \in shorter, x \in S}

\* file.save(path) / img.save(path): create or replace
WriteFile(fs, name, content) ==
    {e \in fs : e.name # name} \cup {[name |-> name, content |-> content]}

Exists(fs, name) == \E e \in fs : e.name = name
ReadFile(fs, name) == (CHOOSE e \in fs : e.name = name).content

\* The page loop of one PDF: stops at the page that raises.
RECURSIVE RenderPages(_, _, _, _, _)
RenderPages(pages, err, page_num, paths, fs) ==
    IF page_num >= Len(pages) \/ err = page_num + 1
    THEN [paths |-> paths, fs |-> fs]
    ELSE RenderPages(pages, err, page_num + 1,
                     Append(paths, PagePath(page_num)),
                     WriteFile(fs, PagePath(page_num), pages[page_num + 1]))

RECURSIVE ProcessUploadedFiles(_, _, _, _)
ProcessUploadedFiles(fl, i, paths, fs) ==
    IF i > Len(fl) THEN [paths |-> paths, fs |-> fs]
    ELSE LET file == fl[i] IN
         IF IsImageName(file.name)
         THEN ProcessUploadedFiles(fl, i + 1, Append(paths, file.name),
                                   WriteFile(fs, file.name, file.content))
         ELSE IF IsPdfName(file.name)
         THEN LET r == RenderPages(file.pages, file.err, 0, paths,
                                   WriteFile(fs, file.name, file.content)) IN
              ProcessUploadedFiles(fl, i + 1, r.paths, r.fs)
         ELSE ProcessUploadedFiles(fl, i + 1, paths, fs)

----------------------------------------------------------------------------
(* Gemini *)

Obj(m) == <<"{", m, "}">>

SampleTexts ==
    { <<"[">> \o Obj("m_ok") \o <<",", "W">> \o Obj("m_badqty") \o <<",">> \o Obj("m_ok") \o <<"]">>,
      <<"[">> \o Obj("m_ok") \o <<",">> \o Obj("m_nopart") \o <<",">> \o Obj("m_ok") \o <<"]">>,
      <<"[">> \o Obj("m_ok") \o <<",">> \o Obj("m_ok") \o <<"]", "W">>,
      <<"[">> \o Obj("m_coerce") \o <<"]">>,
      <<"[">> \o Obj("m_badqty") \o <<"]">>,
      <<"[", "null", "]">>,
      <<"[", "]">>,
      <<"null">>,
      Obj("m_ok"),
      <<"FENCE_JSON", "W", "[">> \o Obj("m_ok") \o <<"]", "W", "FENCE">>,
      <<"x", "W", "[">> \o Obj("m_ok") \o <<"]">>,
      <<"x", "W", "x">>,
      <<"[">> \o Obj("m_ok") }

\* Image.open on every path; any failure makes the function return None.
ImagesLoad(paths, fs) ==
    \A i \in 1..Len(paths) : Exists(fs, paths[i]) /\ ReadFile(fs, paths[i]) # 0

ApiModes == {"config_error", "api_error", "text"}

ExtractJsonFromImagesWithGemini(paths, fs, mode, text) ==
    IF mode = "config_error" THEN None
    ELSE IF ~ImagesLoad(paths, fs) THEN None
    ELSE IF mode = "api_error" THEN None
    ELSE ParseResponse(text)

\* A test for None only: an empty list counts as data.
TruthyIsNotNone(d) == d.some

\* Python truth of the result: None and [] are false.
Truthy(d) == d.some /\ d.list # <<>>

\* The test inverted: "if image_paths".
NoImagePathsInverted(paths) == paths # <<>>

\* "if not image_paths"
NoImagePaths(paths) == paths = <<>>

----------------------------------------------------------------------------
(* The /process handler *)

EmptyName == Name("", -1, "")

NoResponse == [status |-> 0, body |-> "none", text |-> "", data |-> <<>>]
ErrorResponse(text, status) ==
    [status |-> status, body |-> "error", text |-> text, data |-> <<>>]
DataResponse(text, data) ==
    [status |-> 200, body |-> "message", text |-> text, data |-> data]

\* "not files or all(file.filename == '' for file in files)"
NoSelectedFiles(fl) == fl = <<>> \/ \A i \in 1..Len(fl) : fl[i].name = EmptyName

Init ==
    /\ pc = "idle"
    /\ requests = 0
    /\ hasFilePart = FALSE
    /\ files = <<>>
    /\ image_paths = <<>>
    /\ api_key \in BOOLEAN
    /\ raw_text = <<>>
    /\ extracted_data = None
    /\ called = {}
    /\ db_outcome = "none"
    /\ response = NoResponse
    /\ tmp = {}
    /\ dbExists \in BOOLEAN
    /\ tableExists = FALSE
    /\ table = <<>>
    /\ table0 = <<>>
    /\ serial = 0

\* A POST /process arrives.
Receive ==
    /\ pc = "idle"
    /\ requests < MaxRequests
    /\ \E part \in BOOLEAN :
         \E fl \in IF part THEN SeqsUpTo(SampleFiles, MaxFiles) \ {<<>>} ELSE {<<>>} :
            /\ hasFilePart' = part
            /\ files' = fl
    /\ requests' = requests + 1
    /\ pc' = "validate"
    /\ image_paths' = <<>>
    /\ raw_text' = <<>>
    /\ extracted_data' = None
    /\ called' = {}
    /\ db_outcome' = "none"
    /\ response' = NoResponse
    /\ table0' = table
    /\ UNCHANGED <<api_key, tmp, dbExists, tableExists, table, serial>>

\* lines 321-326
Validate ==
    /\ pc = "validate"
    /\ IF ~hasFilePart
       THEN /\ response' = ErrorResponse("No file part in the request", 400)
            /\ pc' = "responded"
       ELSE IF NoSelectedFiles(files)
       THEN /\ response' = ErrorResponse("No selected files", 400)
            /\ pc' = "responded"
       ELSE /\ pc' = "normalize"
            /\ UNCHANGED response
    /\ UNCHANGED <<requests, hasFilePart, files, image_paths, api_key, raw_text,
                   extracted_data, called, db_outcome, tmp, dbExists,
                   tableExists, table, table0, serial>>

\* lines 329-332
Normalize ==
    /\ pc = "normalize"
    /\ LET r == ProcessUploadedFiles(files, 1, <<>>, tmp) IN
       /\ image_paths' = r.paths
       /\ tmp' = r.fs
       /\ IF NoImagePaths(r.paths)
          THEN /\ response' = ErrorResponse("No valid image files processed", 400)
               /\ pc' = "responded"
          ELSE /\ pc' = "apikey"
               /\ UNCHANGED response
    /\ UNCHANGED <<requests, hasFilePart, files, api_key, raw_text,
                   extracted_data, called, db_outcome, dbExists,
                   tableExists, table, table0, serial>>

\* lines 335-337
CheckApiKey ==
    /\ pc = "apikey"
    /\ IF ~api_key
       THEN /\ response' = ErrorResponse("GEMINI_API_KEY not set in environment", 500)
            /\ pc' = "responded"
       ELSE /\ pc' = "createdb"
            /\ UNCHANGED response
    /\ UNCHANGED <<requests, hasFilePart, files, image_paths, api_key, raw_text,
                   extracted_data, called, db_outcome, tmp, dbExists,
                   tableExists, table, table0, serial>>

\* line 347
CreateDb ==
    /\ pc = "createdb"
    /\ \E reachable \in BOOLEAN :
         dbExists' = CreateDatabaseIfNotExists(reachable, dbExists)
    /\ called' = called \cup {"create_database_if_not_exists"}
    /\ pc' = "extract"
    /\ UNCHANGED <<requests, hasFilePart, files, image_paths, api_key, raw_text,
                   extracted_data, db_outcome, response, tmp,
                   tableExists, table, table0, serial>>

\* line 350
Extract ==
    /\ pc = "extract"
    /\ \E mode \in ApiModes :
         \E text \in IF mode = "text" THEN SampleTexts ELSE {<<>>} :
            /\ raw_text' = text
            /\ extracted_data' =
                  ExtractJsonFromImagesWithGemini(image_paths, tmp, mode, text)
    /\ called' = called \cup {"extract_json_from_images_with_gemini"}
    /\ pc' = "branch"
    /\ UNCHANGED <<requests, hasFilePart, files, image_paths, api_key,
                   db_outcome, response, tmp, dbExists,
                   tableExists, table, table0, serial>>

\* lines 352, 356-357
Branch ==
    /\ pc = "branch"
    /\ IF Truthy(extracted_data)
       THEN /\ pc' = "insert"
            /\ UNCHANGED response
       ELSE /\ response' = ErrorResponse("Failed to extract data from images", 500)
            /\ pc' = "responded"
    /\ UNCHANGED <<requests, hasFilePart, files, image_paths, api_key, raw_text,
                   extracted_data, called, db_outcome, tmp, dbExists,
                   tableExists, table, table0, serial>>

\* line 354
Insert ==
    /\ pc = "insert"
    /\ \E mode \in ConnModes :
         LET r == InsertDataIntoPostgres(extracted_data.list, mode,
                     [dbExists |-> dbExists, tableExists |-> tableExists,
                      table |-> table, serial |-> serial]) IN
         /\ db_outcome' = r.outcome
         /\ tableExists' = r.db.tableExists
         /\ table' = r.db.table
         /\ serial' = r.db.serial
    /\ called' = called \cup {"insert_data_into_postgres"}
    /\ pc' = "respond_ok"
    /\ UNCHANGED <<requests, hasFilePart, files, image_paths, api_key, raw_text,
                   extracted_data, response, tmp, dbExists, table0>>

\* line 355
RespondOk ==
    /\ pc = "respond_ok"
    /\ response' = DataResponse("Data processed and inserted successfully",
                                extracted_data.list)
    /\ pc' = "responded"
    /\ UNCHANGED <<requests, hasFilePart, files, image_paths, api_key, raw_text,
                   extracted_data, called, db_outcome, tmp, dbExists,
                   tableExists, table, table0, serial>>

\* The response is sent; the worker waits for the next request.
Finish ==
    /\ pc = "responded"
    /\ pc' = "idle"
    /\ UNCHANGED <<requests, hasFilePart, files, image_paths, api_key, raw_text,
                   extracted_data, called, db_outcome, response, tmp, dbExists,
                   tableExists, table, table0, serial>>

Next ==
    \/ Receive
    \/ Validate
    \/ Normalize
    \/ CheckApiKey
    \/ CreateDb
    \/ Extract
    \/ Branch
    \/ Insert
    \/ RespondOk
    \/ Finish

Spec == Init /\ [][Next]_vars

----------------------------------------------------------------------------
(* The response parser on every text up to MaxTextLen tokens *)

Alphabet == {"[", "]", "{", "}", ",", "null", "x", "W", "FENCE_JSON", "FENCE", "m_ok"}

InitParse ==
    /\ pc = "parse"
    /\ raw_text \in SeqsUpTo(Alphabet, MaxTextLen)
    /\ requests = 0
    /\ hasFilePart = FALSE
    /\ files = <<>>
    /\ image_paths = <<>>
    /\ api_key = TRUE
    /\ extracted_data = None
    /\ called = {}
    /\ db_outcome = "none"
    /\ response = NoResponse
    /\ tmp = {}
    /\ dbExists = FALSE
    /\ tableExists = FALSE
    /\ table = <<>>
    /\ table0 = <<>>
    /\ serial = 0

\* lines 267-300 with the handlers of lines 302-315
ParseText ==
    /\ pc = "parse"
    /\ extracted_data' = ParseResponse(raw_text)
    /\ pc' = "parsed"
    /\ UNCHANGED <<requests, hasFilePart, files, image_paths, api_key, raw_text,
                   called, db_outcome, response, tmp, dbExists,
                   tableExists, table, table0, serial>>

NextParse == ParseText

SpecParse == InitParse /\ [][NextParse]_vars

----------------------------------------------------------------------------
(* Properties *)

Data == extracted_data.list
NewRows == SubSeq(table, Len(table0) + 1, Len(table))
Responded == pc = "responded"
ExtractionCalled == "extract_json_from_images_with_gemini" \in called
InsertCalled == "insert_data_into_postgres" \in called
AllDicts(data) == \A i \in 1..Len(data) : data[i].t = "dict"
NullParticulars(d) == d.f["PARTICULARS"].k \in {"absent", "null"}

\* The rows of the records whose insert succeeds, in order.
RECURSIVE SucceedingRows(_)
SucceedingRows(data) ==
    IF data = <<>> THEN <<>>
    ELSE LET e == ExecuteInsert(Head(data).f) IN
         IF e.err THEN SucceedingRows(Tail(data))
         ELSE <<e.cols>> \o SucceedingRows(Tail(data))

ColsOf(rows) == [i \in 1..Len(rows) |-> rows[i].cols]

\* C1: after insert_data_into_postgres has run on a batch in which some
\* inserts fail with a database error, the table holds a new row for every
\* record whose insert succeeded, those before the failing one included, and
\* none for the failing records.
C1_BestEffortBatch ==
    (Responded /\ db_outcome = "committed" /\ AllDicts(Data)
        /\ \A i \in 1..Len(Data) : CanSlice(Data[i].f["PARTICULARS"]))
    => ColsOf(NewRows) = SucceedingRows(Data)

\* C2: once the extraction has failed or yielded no records, the writer is
\* never called for the request, the table keeps the rows it had when the
\* request arrived, and the response is an error with status 500.
C2_FailedExtractionNotPersisted ==
    (ExtractionCalled /\ (~extracted_data.some \/ extracted_data.list = <<>>))
    => /\ ~InsertCalled
       /\ table = table0
       /\ pc \in {"branch", "responded", "idle"}
       /\ pc \in {"responded", "idle"}
            => response.status = 500 /\ response.body = "error"

C2_Witness ==
    /\ Responded
    /\ ExtractionCalled
    /\ extracted_data.some
    /\ extracted_data.list = <<>>
    /\ response.status = 500

EmptyOrUnrecognized ==
    ~hasFilePart \/ \A i \in 1..Len(files) : ~IsRecognized(files[i].name)

\* C3: a request whose upload set is empty or holds only files of
\* unrecognized type ends with status 400 and an error body, and the handler
\* calls neither the extraction nor any database function for it.
C3_InputErrorBeforeAnyCall ==
    (requests > 0 /\ EmptyOrUnrecognized)
    => /\ called = {}
       /\ table = table0
       /\ pc \in {"validate", "normalize", "responded", "idle"}
       /\ pc \in {"responded", "idle"}
            => response.status = 400 /\ response.body = "error"

C3_Witness ==
    /\ Responded
    /\ hasFilePart
    /\ \E i \in 1..Len(files) : files[i].name # EmptyName
    /\ EmptyOrUnrecognized
    /\ response.status = 400

\* C4: the "data" list of a 200 response is exactly the records inserted and
\* committed in this request, with the values the table stores.
C4_ResponseDataIsPersisted ==
    (Responded /\ response.status = 200)
    => /\ Len(response.data) = Len(NewRows)
       /\ \A i \in 1..Len(response.data) :
            /\ response.data[i].t = "dict"
            /\ ~ExecuteInsert(response.data[i].f).err
            /\ i <= Len(NewRows)
                 => ExecuteInsert(response.data[i].f).cols = NewRows[i].cols

DownstreamFailed ==
    \/ image_paths # <<>> /\ ~api_key
    \/ ExtractionCalled /\ ~Truthy(extracted_data)
    \/ db_outcome \in {"db_error", "general_error"}

\* C5: every failure of a downstream stage, the persistence stage failing as
\* a whole included, is answered with status 500 and an error body.
C5_DownstreamFailureIs500 ==
    (Responded /\ DownstreamFailed)
    => response.status = 500 /\ response.body = "error"

RenderedAPage == \E i \in 1..Len(image_paths) : IsScratch(image_paths[i])

\* C6: when the handler has returned its response for a request that
\* rendered a PDF page, no scratch file temp_pdf_page_N.jpg is left in /tmp.
C6_ScratchFilesRemoved ==
    (Responded /\ RenderedAPage) => ~\E e \in tmp : IsScratch(e.name)

\* Start positions of a balanced JSON array or object inside the text.
JsonStarts(t) ==
    {i \in 1..Len(t) : t[i] \in {"[", "{"} /\ ParseValue(t, i).ok}

FirstJsonValue(t) ==
    LET i == CHOOSE m \in JsonStarts(t) : \A o \in JsonStarts(t) : m <= o IN
    ParseValue(t, i).val

AsRecords(v) == IF v.t = "list" THEN Some(v.items) ELSE Some(<<v>>)

\* C7: for a trimmed text that is neither fenced nor starts with [ or {, the
\* parser returns the records of the first balanced JSON array or object
\* inside the text, and fails with no records when there is none.
C7_EmbeddedJsonIsParsed ==
    LET t == Strip(raw_text) IN
    (pc = "parsed" /\ ~IsFenced(t) /\ ~LooksLikeJson(t))
    => IF JsonStarts(t) # {}
       THEN extracted_data = AsRecords(FirstJsonValue(t))
       ELSE extracted_data = None

Normalized ==
    \/ pc \in {"apikey", "createdb", "extract", "branch", "insert", "respond_ok"}
    \/ Responded /\ response.text \notin {"No file part in the request", "No selected files"}

RECURSIVE ExpectedContents(_)
ExpectedContents(fl) ==
    IF fl = <<>> THEN <<>>
    ELSE LET file == Head(fl) IN
         (IF IsImageName(file.name) THEN <<file.content>>
          ELSE IF IsPdfName(file.name) THEN file.pages
          ELSE <<>>) \o ExpectedContents(Tail(fl))

\* C8: without a render error, process_uploaded_files returns one entry per
\* image and per PDF page in upload order, and each entry designates an image
\* that holds that file's or page's own content.
C8_EntriesKeepOwnContent ==
    (Normalized /\ \A i \in 1..Len(files) : files[i].err = 0)
    => /\ Len(image_paths) = Len(ExpectedContents(files))
       /\ \A i \in 1..Len(image_paths) :
            /\ Exists(tmp, image_paths[i])
            /\ i <= Len(ExpectedContents(files))
                 => ReadFile(tmp, image_paths[i]) = ExpectedContents(files)[i]

\* The number the mapper of the specification stores: zero for a null, absent
\* or unparseable field.
CoercedNumber(v) ==
    IF v.k = "num" THEN v.n
    ELSE IF v.k = "str" /\ IsNumeral(v.s) THEN NumeralTenths[v.s]
    ELSE 0

\* C9: the quantity and amount columns of every stored row hold coerced
\* numbers: 0 for a null, absent or unparseable field, 12.5 for "12.5".
C9_NumericColumnsCoerced ==
    (Responded /\ db_outcome = "committed" /\ AllDicts(Data))
    => \A i \in 1..Len(NewRows) :
         \E j \in 1..Len(Data) :
            /\ \A f \in AmountFields :
                 NewRows[i].cols[f] = SqlNum(CoercedNumber(Data[j].f[f]))
            /\ \A f \in QuantityFields :
                 NewRows[i].cols[f] = SqlNum(RoundTenths(CoercedNumber(Data[j].f[f])))

\* C10: a record without PARTICULARS is inserted with NULL in that column and
\* does not keep the other records of the batch from being committed.
C10_NullParticularsInserted ==
    (Responded /\ db_outcome \in {"committed", "general_error"} /\ AllDicts(Data)
        /\ (\E i \in 1..Len(Data) : NullParticulars(Data[i]))
        /\ \A i \in 1..Len(Data) : ~ExecuteInsert(Data[i].f).err)
    => /\ ColsOf(NewRows) = SucceedingRows(Data)
       /\ Len(NewRows) = Len(Data)

====
